---- MODULE Spec2Model ----
(***************************************************************************)
(* Model of Graph<T> (src/src/graph.rs): a directed graph kept as a set of *)
(* vertices, a set of edges, a label map and two adjacency tables.         *)
(* Every public method is one action; the value it returns is recorded in  *)
(* ret and the call itself in call, so that the contracts of the methods   *)
(* can be stated over the reachable states and steps.                      *)
(***************************************************************************)
EXTENDS Integers, Sequences, FiniteSets, TLC

\* Most entries explored in one adjacency table, all its vectors together
\* (Vec<T> is unbounded in the program).
MaxEntries == 3

\* The vertex keys (T = u32 in the tests) and labels (&str) used as inputs.
Keys == {1, 2}
Labels == {"A", ""}

VARIABLES vertices, edges, vertex_labels, inbound_table, outbound_table,
          call, ret

graph == <<vertices, edges, vertex_labels, inbound_table, outbound_table>>
vars == <<vertices, edges, vertex_labels, inbound_table, outbound_table,
          call, ret>>

----------------------------------------------------------------------------
\* GraphError and the other values a method returns.
NoSuchVertex == "Err(NoSuchVertex)"
NoSuchEdge == "Err(NoSuchEdge)"
Ok == "Ok(())"
Bool(b) == IF b THEN "true" ELSE "false"

\* Option<&String>
None == <<>>
Some(l) == <<l>>

----------------------------------------------------------------------------
\* HashMap / HashSet / Vec primitives of the standard library, as used.
EmptyMap == [x \in {} |-> <<>>]
MapInsert(m, k, v) == [x \in (DOMAIN m) \cup {k} |-> IF x = k THEN v ELSE m[x]]
MapRemove(m, k) == [x \in (DOMAIN m) \ {k} |-> m[x]]
Elems(s) == {s[i] : i \in 1..Len(s)}
Count(s, x) == Cardinality({i \in 1..Len(s) : s[i] = x})

\* The number of entries of an adjacency table: the sum of its vectors' len().
RECURSIVE SumLen(_, _)
SumLen(table, S) ==
    IF S = {} THEN 0
    ELSE LET k == CHOOSE x \in S : TRUE
         IN Len(table[k]) + SumLen(table, S \ {k})
TableSize(table) == SumLen(table, DOMAIN table)

\* HashSet::insert returns true iff the value was NOT yet in the set.
HashSet_insert(S, x) == x \notin S
\* HashSet::remove returns true iff the value was in the set.
HashSet_remove(S, x) == x \in S

----------------------------------------------------------------------------
\* Queries.
number_of_vertices == Cardinality(vertices)
number_of_edges == Cardinality(edges)
is_vertex_in_graph(vertex) == vertex \in vertices
is_edge_in_graph(outbound, inbound) == <<outbound, inbound>> \in edges
get_label(vertex) ==
    IF vertex \in DOMAIN vertex_labels THEN Some(vertex_labels[vertex]) ELSE None
in_neighbours(vertex) ==
    IF vertex \in DOMAIN inbound_table THEN inbound_table[vertex] ELSE <<>>
out_neighbours(vertex) ==
    IF vertex \in DOMAIN outbound_table THEN outbound_table[vertex] ELSE <<>>

----------------------------------------------------------------------------
Init ==
    /\ vertices = {}
    /\ edges = {}
    /\ vertex_labels = EmptyMap
    /\ inbound_table = EmptyMap
    /\ outbound_table = EmptyMap
    /\ call = [op |-> "new", keys |-> <<>>, label |-> <<>>]
    /\ ret = "Graph"

\* --- add_vertex -----------------------------------------------------------
add_vertex_default_label(vertex) ==
    /\ call' = [op |-> "add_vertex", keys |-> <<vertex>>, label |-> <<>>]
    /\ ret' = Bool(HashSet_insert(vertices, vertex))
    /\ vertices' = vertices \cup {vertex}
    /\ vertex_labels' = MapInsert(vertex_labels, vertex, "")
    /\ UNCHANGED <<edges, inbound_table, outbound_table>>
add_vertex(vertex) ==
    /\ call' = [op |-> "add_vertex", keys |-> <<vertex>>, label |-> <<>>]
    /\ ret' = Bool(HashSet_insert(vertices, vertex))
    /\ vertices' = vertices \cup {vertex}
    /\ UNCHANGED <<edges, vertex_labels, inbound_table, outbound_table>>

\* --- add_vertex_with_label ------------------------------------------------
add_vertex_with_label_if_absent(vertex, label) ==
    /\ call' = [op |-> "add_vertex_with_label", keys |-> <<vertex>>,
                label |-> <<label>>]
    /\ vertex_labels' = IF vertex \in DOMAIN vertex_labels
                        THEN vertex_labels
                        ELSE MapInsert(vertex_labels, vertex, label)
    /\ ret' = Bool(HashSet_insert(vertices, vertex))
    /\ vertices' = vertices \cup {vertex}
    /\ UNCHANGED <<edges, inbound_table, outbound_table>>
add_vertex_with_label(vertex, label) ==
    /\ call' = [op |-> "add_vertex_with_label", keys |-> <<vertex>>,
                label |-> <<label>>]
    /\ vertex_labels' = MapInsert(vertex_labels, vertex, label)
    /\ ret' = Bool(HashSet_insert(vertices, vertex))
    /\ vertices' = vertices \cup {vertex}
    /\ UNCHANGED <<edges, inbound_table, outbound_table>>

\* --- add_edge -------------------------------------------------------------
\* The guard of add_edge: some endpoint is missing.
add_edge_missing_both(V, outbound, incoming) ==
    outbound \notin V /\ incoming \notin V
add_edge_missing_source(V, outbound, incoming) ==
    outbound \notin V
add_edge_missing(V, outbound, incoming) ==
    outbound \notin V \/ incoming \notin V

\* match table.get_mut(&key) { Some(v) => v.push(value), None => insert vec![value] }
push_neighbour_front(table, key, value) ==
    IF key \in DOMAIN table
    THEN MapInsert(table, key, <<value>> \o table[key])
    ELSE MapInsert(table, key, <<value>>)
push_neighbour(table, key, value) ==
    IF key \in DOMAIN table
    THEN MapInsert(table, key, Append(table[key], value))
    ELSE MapInsert(table, key, <<value>>)

\* The inbound table after add_edge(outbound, incoming).
add_edge_inbound_swapped(table, outbound, incoming) ==
    push_neighbour(table, incoming, incoming)
add_edge_inbound(table, outbound, incoming) ==
    push_neighbour(table, incoming, outbound)

\* The outbound table after add_edge(outbound, incoming).
add_edge_outbound_reset(table, outbound, incoming) ==
    MapInsert(table, outbound, <<incoming>>)
add_edge_outbound(table, outbound, incoming) ==
    push_neighbour(table, outbound, incoming)

add_edge(outbound, incoming) ==
    /\ call' = [op |-> "add_edge", keys |-> <<outbound, incoming>>,
                label |-> <<>>]
    /\ IF add_edge_missing(vertices, outbound, incoming)
       THEN /\ ret' = NoSuchVertex
            /\ UNCHANGED graph
       ELSE /\ TableSize(inbound_table) < MaxEntries
            /\ TableSize(outbound_table) < MaxEntries
            /\ edges' = edges \cup {<<outbound, incoming>>}
            /\ inbound_table' = add_edge_inbound(inbound_table, outbound, incoming)
            /\ outbound_table' = add_edge_outbound(outbound_table, outbound, incoming)
            /\ ret' = Ok
            /\ UNCHANGED <<vertices, vertex_labels>>

\* --- remove_edge ----------------------------------------------------------
\* The edge set after remove_edge(inbound, outbound): self.edges.remove(..).
remove_edge_edges(E, inbound, outbound) == E \ {<<inbound, outbound>>}

\* The result of remove_edge: Ok when remove() reported false.
remove_edge_result(E, inbound, outbound) ==
    IF ~HashSet_remove(E, <<inbound, outbound>>) THEN Ok ELSE NoSuchEdge

remove_edge(inbound, outbound) ==
    /\ call' = [op |-> "remove_edge", keys |-> <<inbound, outbound>>,
                label |-> <<>>]
    /\ edges' = remove_edge_edges(edges, inbound, outbound)
    /\ ret' = remove_edge_result(edges, inbound, outbound)
    /\ UNCHANGED <<vertices, vertex_labels, inbound_table, outbound_table>>

\* --- remove_vertex --------------------------------------------------------
\* for other_vertex in outbound { let _ = self.remove_edge(vertex, &other_vertex); }
RECURSIVE remove_outgoing(_, _, _)
remove_outgoing(E, vertex, outbound) ==
    IF outbound = <<>> THEN E
    ELSE remove_outgoing(remove_edge_edges(E, vertex, Head(outbound)),
                         vertex, Tail(outbound))

\* for other_vertex in inbound { let _ = self.remove_edge(&other_vertex, vertex); }
RECURSIVE remove_ingoing(_, _, _)
remove_ingoing(E, vertex, inbound) ==
    IF inbound = <<>> THEN E
    ELSE remove_ingoing(remove_edge_edges(E, Head(inbound), vertex),
                        vertex, Tail(inbound))

\* The edge set after the two cascades of remove_vertex.
remove_vertex_edges_outgoing_only(E, vertex, outbound, inbound) ==
    remove_outgoing(E, vertex, outbound)
remove_vertex_edges_of_neighbours(E, vertex, outbound, inbound) ==
    {e \in remove_ingoing(remove_outgoing(E, vertex, outbound), vertex, inbound) :
        e[1] \notin Elems(inbound)}
remove_vertex_edges(E, vertex, outbound, inbound) ==
    remove_ingoing(remove_outgoing(E, vertex, outbound), vertex, inbound)

\* The label map after remove_vertex: self.vertex_labels.remove(vertex).
remove_vertex_labels_kept(labels, vertex) == labels
remove_vertex_labels(labels, vertex) == MapRemove(labels, vertex)

remove_vertex(vertex) ==
    /\ call' = [op |-> "remove_vertex", keys |-> <<vertex>>, label |-> <<>>]
    /\ IF ~(vertex \in vertices)
       THEN /\ ret' = NoSuchVertex
            /\ UNCHANGED graph
       ELSE /\ vertices' = vertices \ {vertex}
            /\ vertex_labels' = remove_vertex_labels(vertex_labels, vertex)
            /\ outbound_table' = MapRemove(outbound_table, vertex)
            /\ inbound_table' = MapRemove(inbound_table, vertex)
            /\ edges' = remove_vertex_edges(edges, vertex,
                                            out_neighbours(vertex),
                                            in_neighbours(vertex))
            /\ ret' = Ok

\* --- set_label ------------------------------------------------------------
\* The guard of set_label: the vertex is missing.
set_label_missing_never(V, vertex) == FALSE
set_label_missing(V, vertex) == ~(vertex \in V)

set_label(vertex, label) ==
    /\ call' = [op |-> "set_label", keys |-> <<vertex>>, label |-> <<label>>]
    /\ IF set_label_missing(vertices, vertex)
       THEN /\ ret' = NoSuchVertex
            /\ UNCHANGED graph
       ELSE /\ vertex_labels' = MapInsert(vertex_labels, vertex, label)
            /\ ret' = Ok
            /\ UNCHANGED <<vertices, edges, inbound_table, outbound_table>>

----------------------------------------------------------------------------
Next ==
    \/ \E vertex \in Keys : add_vertex(vertex)
    \/ \E vertex \in Keys, label \in Labels : add_vertex_with_label(vertex, label)
    \/ \E outbound \in Keys, incoming \in Keys : add_edge(outbound, incoming)
    \/ \E inbound \in Keys, outbound \in Keys : remove_edge(inbound, outbound)
    \/ \E vertex \in Keys : remove_vertex(vertex)
    \/ \E vertex \in Keys, label \in Labels : set_label(vertex, label)

Spec == Init /\ [][Next]_vars

----------------------------------------------------------------------------
\* The last call, as the claims read it.
Called(op) == call.op = op
CallIs(c, op, keys) == c.op = op /\ c.keys = keys

\* C1: after any sequence of public operations, (u,v) is in the edge set if
\* and only if v is in out_neighbours(u) and u is in in_neighbours(v).
C1_EdgesAndIndicesConsistent ==
    \A u, v \in Keys :
        is_edge_in_graph(u, v) <=>
            (v \in Elems(out_neighbours(u)) /\ u \in Elems(in_neighbours(v)))

\* C2: remove_edge(u, v) returns NoSuchEdge exactly when (u,v) is not in the
\* edge set at the call; when it is, the call returns Ok and afterwards
\* is_edge_in_graph(u, v) is false.
C2_RemoveEdgeResult ==
    [][\A u, v \in Keys :
          CallIs(call', "remove_edge", <<u, v>>) =>
              /\ (ret' = NoSuchEdge) <=> ~is_edge_in_graph(u, v)
              /\ is_edge_in_graph(u, v) =>
                     (ret' = Ok /\ ~is_edge_in_graph(u, v)')]_vars

\* C3: in every reachable state, every element of in_neighbours(w) and of
\* out_neighbours(w) is a member of the vertex set.
C3_NoDanglingNeighbour ==
    \A w \in Keys :
        Elems(in_neighbours(w)) \cup Elems(out_neighbours(w)) \subseteq vertices

\* C4: after remove_vertex(k) returned Ok, k is not a vertex, get_label(k)
\* is None and no edge has k as source or destination (self-loop included).
C4_RemoveVertexPost ==
    \A k \in Keys :
        (CallIs(call, "remove_vertex", <<k>>) /\ ret = Ok) =>
            /\ ~is_vertex_in_graph(k)
            /\ get_label(k) = None
            /\ \A w \in Keys : ~is_edge_in_graph(k, w) /\ ~is_edge_in_graph(w, k)

\* C4 witness: k was removed after an edge into k had been added twice (the
\* source's outbound vector still lists k twice).
C4_Witness ==
    \E k, w \in Keys :
        /\ CallIs(call, "remove_vertex", <<k>>) /\ ret = Ok
        /\ w # k
        /\ Count(out_neighbours(w), k) >= 2

\* C5: in every reachable state both endpoints of every edge are vertices.
C5_EdgeEndpointsAreVertices ==
    \A e \in edges : e[1] \in vertices /\ e[2] \in vertices

\* C5 witness: an edge is left in the graph right after a vertex was removed.
C5_Witness ==
    /\ Called("remove_vertex") /\ ret = Ok
    /\ edges # {}

\* C6: add_vertex(k) and add_vertex_with_label(k, l) return true if k was in
\* the vertex set before the call and false if it was not.
C6_AddVertexReturnsWasPresent ==
    [][\A k \in Keys :
          (call'.op \in {"add_vertex", "add_vertex_with_label"}
             /\ call'.keys = <<k>>) =>
              ret' = Bool(is_vertex_in_graph(k))]_vars

\* C7: a successful add_edge(u, v) of an edge that is already in the edge
\* set leaves number_of_edges() unchanged and adds no further occurrence of
\* v to out_neighbours(u) nor of u to in_neighbours(v).
C7_AddEdgeIdempotent ==
    [][\A u, v \in Keys :
          (CallIs(call', "add_edge", <<u, v>>) /\ ret' = Ok
             /\ is_edge_in_graph(u, v)) =>
              /\ number_of_edges' = number_of_edges
              /\ Count(out_neighbours(u)', v) = Count(out_neighbours(u), v)
              /\ Count(in_neighbours(v)', u) = Count(in_neighbours(v), u)]_vars

\* C8: add_edge(u, v) with u or v (or both) absent from the vertex set
\* returns NoSuchVertex and changes nothing of the graph.
C8_AddEdgeMissingVertex ==
    [][\A u, v \in Keys :
          (CallIs(call', "add_edge", <<u, v>>)
             /\ (~is_vertex_in_graph(u) \/ ~is_vertex_in_graph(v))) =>
              (ret' = NoSuchVertex /\ UNCHANGED graph)]_vars

\* C8 witness: add_edge failed on a graph that has the source, not the
\* destination, and already holds an edge.
C8_Witness ==
    /\ Called("add_edge") /\ ret = NoSuchVertex
    /\ call.keys[1] \in vertices /\ call.keys[2] \notin vertices
    /\ edges # {}

\* C9: add_edge(u, v) on two vertices of the graph (u = v allowed) returns
\* Ok and right afterwards is_edge_in_graph(u, v) is true, v is in
\* out_neighbours(u) and u is in in_neighbours(v).
C9_AddEdgePost ==
    [][\A u, v \in Keys :
          (CallIs(call', "add_edge", <<u, v>>)
             /\ is_vertex_in_graph(u) /\ is_vertex_in_graph(v)) =>
              /\ ret' = Ok
              /\ is_edge_in_graph(u, v)'
              /\ v \in Elems(out_neighbours(u))'
              /\ u \in Elems(in_neighbours(v))']_vars

\* C9 witness: a self-loop and an edge between distinct vertices were added,
\* the last call being a successful add_edge.
C9_Witness ==
    /\ Called("add_edge") /\ ret = Ok
    /\ \E u, v \in Keys :
          u # v /\ is_edge_in_graph(u, v) /\ is_edge_in_graph(v, v)

\* C10: set_label(k, l) and remove_vertex(k) on a key that is not a vertex
\* return NoSuchVertex and change nothing of the graph; set_label on a
\* vertex returns Ok and afterwards get_label(k) is l.
C10_AbsentKeyAndSetLabel ==
    [][\A k \in Keys :
          /\ (call'.op \in {"set_label", "remove_vertex"} /\ call'.keys = <<k>>
                /\ ~is_vertex_in_graph(k)) =>
                 (ret' = NoSuchVertex /\ UNCHANGED graph)
          /\ (CallIs(call', "set_label", <<k>>) /\ is_vertex_in_graph(k)) =>
                 (ret' = Ok /\ get_label(k)' = Some(call'.label[1]))]_vars

\* C10 witness: set_label failed on an absent key while the graph holds
\* another, labelled vertex.
C10_Witness ==
    /\ Called("set_label") /\ ret = NoSuchVertex
    /\ call.keys[1] \notin vertices
    /\ \E k \in vertices : get_label(k) # None

\* C11: get_label(k) is None for every key k that is not a vertex, and for
\* every vertex added with add_vertex and not labelled since: a vertex that
\* add_vertex newly adds has no label, and a key without a label gets one
\* only by add_vertex_with_label(k, _) or set_label(k, _).
C11_NoLabelUnlessLabelled ==
    [][\A k \in Keys :
          /\ ~is_vertex_in_graph(k) => get_label(k) = None
          /\ ~is_vertex_in_graph(k)' => get_label(k)' = None
          /\ (CallIs(call', "add_vertex", <<k>>) /\ ~is_vertex_in_graph(k)) =>
                 get_label(k)' = None
          /\ (get_label(k) = None /\ get_label(k)' # None) =>
                 (call'.op \in {"add_vertex_with_label", "set_label"}
                    /\ call'.keys = <<k>>)]_vars

\* C11 witness: add_vertex has just newly added k (insert reported true),
\* k has no label, and another vertex carries the label "".
C11_Witness ==
    \E k, j \in Keys :
        /\ CallIs(call, "add_vertex", <<k>>) /\ ret = Bool(TRUE)
        /\ get_label(k) = None
        /\ j # k /\ get_label(j) = Some("")

\* C12: in every reachable state in_neighbours(k) is empty whenever k is not
\* a vertex or no edge of the edge set leads into k, and out_neighbours(k)
\* is empty whenever k is not a vertex or no edge of the edge set leaves k.
C12_NoNeighboursWithoutEdges ==
    \A k \in Keys :
        /\ (~is_vertex_in_graph(k) \/ \A w \in Keys : ~is_edge_in_graph(w, k)) =>
               in_neighbours(k) = <<>>
        /\ (~is_vertex_in_graph(k) \/ \A w \in Keys : ~is_edge_in_graph(k, w)) =>
               out_neighbours(k) = <<>>

\* C13: neighbour sequences are in insertion order.  On every step that is
\* no removal: a successful add_edge(u, v) of a pair not yet in the edge set
\* puts v at the end of out_neighbours(u) and u at the end of
\* in_neighbours(v) and leaves every other sequence as it was, and every
\* other call leaves all sequences as they were; so without removals each
\* sequence lists the neighbours in the order of the add_edge calls.
C13_InsertionOrder ==
    [][call'.op \notin {"remove_vertex", "remove_edge"} =>
          LET added == call'.op = "add_edge" /\ ret' = Ok
          IN \A k \in Keys :
                 /\ IF added /\ call'.keys[1] = k
                    THEN ~is_edge_in_graph(k, call'.keys[2]) =>
                             out_neighbours(k)' =
                                 Append(out_neighbours(k), call'.keys[2])
                    ELSE out_neighbours(k)' = out_neighbours(k)
                 /\ IF added /\ call'.keys[2] = k
                    THEN ~is_edge_in_graph(call'.keys[1], k) =>
                             in_neighbours(k)' =
                                 Append(in_neighbours(k), call'.keys[1])
                    ELSE in_neighbours(k)' = in_neighbours(k)]_vars

\* C13 witness: two distinct edges leaving u were added, to v and then to w,
\* nothing was removed (the tables hold exactly the two edges), and
\* out_neighbours(u) lists v before w.
C13_Witness ==
    \E u, v, w \in Keys :
        /\ CallIs(call, "add_edge", <<u, w>>) /\ ret = Ok
        /\ v # w
        /\ edges = {<<u, v>>, <<u, w>>}
        /\ out_neighbours(u) = <<v, w>>
        /\ in_neighbours(v) = <<u>> /\ in_neighbours(w) = <<u>>
        /\ TableSize(outbound_table) = 2 /\ TableSize(inbound_table) = 2

\* C14: add_vertex(k) changes nothing but the vertex set: afterwards k is a
\* vertex, number_of_vertices() has grown by 1 if k was absent and by 0 if
\* it was present, and the edge set, the label map (k's label included) and
\* both adjacency tables are unchanged.
C14_AddVertexFrame ==
    [][\A k \in Keys :
          CallIs(call', "add_vertex", <<k>>) =>
              /\ is_vertex_in_graph(k)'
              /\ number_of_vertices' =
                     number_of_vertices + (IF is_vertex_in_graph(k) THEN 0 ELSE 1)
              /\ UNCHANGED <<edges, vertex_labels, inbound_table, outbound_table>>]_vars

\* C14 witness: add_vertex was called on a vertex that was already present
\* (insert reported false), carries a label and has a self-loop.
C14_Witness ==
    \E k \in Keys :
        /\ CallIs(call, "add_vertex", <<k>>) /\ ret = Bool(FALSE)
        /\ get_label(k) # None
        /\ is_edge_in_graph(k, k)

\* C15: add_vertex_with_label(k, l) makes k a vertex and get_label(k) = l,
\* whatever k was before ("" being a label, not the absence of one), and
\* leaves the edge set, both adjacency tables and every other key's label
\* unchanged.
C15_AddVertexWithLabelPost ==
    [][\A k \in Keys :
          CallIs(call', "add_vertex_with_label", <<k>>) =>
              /\ is_vertex_in_graph(k)'
              /\ get_label(k)' = Some(call'.label[1])
              /\ get_label(k)' # None
              /\ UNCHANGED <<edges, inbound_table, outbound_table>>
              /\ \A j \in Keys \ {k} : get_label(j)' = get_label(j)]_vars

\* C15 witness: add_vertex_with_label(k, "") was called on a vertex that was
\* already present (insert reported false) and has a self-loop; k now has the
\* label "" and another vertex keeps the label "A".
C15_Witness ==
    \E k, j \in Keys :
        /\ CallIs(call, "add_vertex_with_label", <<k>>) /\ ret = Bool(FALSE)
        /\ call.label = <<"">>
        /\ get_label(k) = Some("")
        /\ is_edge_in_graph(k, k)
        /\ j # k /\ get_label(j) = Some("A")

\* C16: in every reachable state the adjacency tables cover the edge set:
\* whenever (u,v) is in the edge set, v occurs in out_neighbours(u) and u
\* occurs in in_neighbours(v).
C16_IndicesCoverEdges ==
    \A u, v \in Keys :
        is_edge_in_graph(u, v) =>
            (v \in Elems(out_neighbours(u)) /\ u \in Elems(in_neighbours(v)))

\* C16 witness: the tables hold more than the edge set (an edge was removed
\* with remove_edge) while another edge is still present.
C16_Witness ==
    /\ Called("remove_edge")
    /\ edges # {}
    /\ TableSize(outbound_table) > Cardinality(edges)

\* C17: a successful remove_vertex(k) removes only what belongs to k: every
\* other vertex stays, every other key's label is unchanged, every edge
\* with both endpoints different from k stays, and number_of_edges() drops
\* by exactly the number of distinct edges incident to k.
C17_RemoveVertexFrame ==
    [][\A k \in Keys :
          (CallIs(call', "remove_vertex", <<k>>) /\ ret' = Ok) =>
              /\ \A j \in Keys \ {k} :
                     /\ is_vertex_in_graph(j) => is_vertex_in_graph(j)'
                     /\ get_label(j)' = get_label(j)
              /\ \A u, v \in Keys \ {k} :
                     is_edge_in_graph(u, v) => is_edge_in_graph(u, v)'
              /\ number_of_edges' = number_of_edges -
                     Cardinality({e \in edges : e[1] = k \/ e[2] = k})]_vars

\* C17 witness: k was removed while another vertex w has a label and a
\* self-loop, and an edge from w to k had existed (w's outbound vector
\* still lists k).
C17_Witness ==
    \E k, w \in Keys :
        /\ CallIs(call, "remove_vertex", <<k>>) /\ ret = Ok
        /\ w # k
        /\ get_label(w) # None
        /\ is_edge_in_graph(w, w)
        /\ k \in Elems(out_neighbours(w))

====
